---- MODULE Spec2Model ----
(***************************************************************************)
(* Model of src/src/App.jsx: a teleoperation panel that publishes Twist    *)
(* messages on a ROS topic through a rosbridge session.                    *)
(*                                                                         *)
(* Numbers are fixed point: an axis value or a limit v of the program is   *)
(* the integer 10*v here (One stands for 1.0), and a published velocity,   *)
(* the product of an axis and a limit, is therefore in hundredths.         *)
(*                                                                         *)
(* React state is committed together with the handler that sets it: a      *)
(* handler's action ends with the effects whose dependencies it changed.   *)
(* out holds the messages the last step handed to topic.publish, and       *)
(* lastOp names the publishing path that step ran: the interval callback,  *)
(* a delayed repeat of safeStop, or the handler that calls publishTwist or *)
(* safeStop ("none" for a handler that calls neither).                     *)
(***************************************************************************)
EXTENDS Integers, Sequences, FiniteSets

VARIABLES topicName, isConnected, linearMax, angularMax, estop, controlMode,
          rosRef, cmdVelTopicRef, axesRef, timerRef,
          ros, intervals, stopTimers, out, lastOp

vars == <<topicName, isConnected, linearMax, angularMax, estop, controlMode,
          rosRef, cmdVelTopicRef, axesRef, timerRef,
          ros, intervals, stopTimers, out, lastOp>>

-----------------------------------------------------------------------------
(* Bounds of the model *)

\* Sessions (ROSLIB.Ros objects) that can be alive, i.e. not yet closed, at once.
MaxSessions == 2
\* safeStop calls whose delayed repeats can be pending at once.
MaxSafeStops == 1
\* Magnitude (tenths) of the negative limit the settings inputs are given.
NegLimit == 5
\* Magnitude (tenths) of the joystick vector component beyond the unit range.
JoyOver == 12

(* Program constants *)

\* 1.0 in tenths: the bound of the joystick clamp and a full button deflection.
One == 10
\* useState(0.6) and useState(1.2)
InitLinearMax == 6
InitAngularMax == 12
\* the diagonal buttons' x deflection, 0.7
Diag == 7

Topics == {"/cmd_vel", "/alt"}
LinearVals == {-NegLimit, InitLinearMax}
AngularVals == {-NegLimit, InitAngularMax}
JoyVals == {-JoyOver, 0, JoyOver}
Sessions == 1..MaxSessions

\* cmdVelTopicRef.current = null
NoTopic == [ros |-> 0, name |-> "null"]
ZeroAxes == [x |-> 0, y |-> 0]

\* The pointer-down deflection of each of the eight direction buttons.
Buttons ==
  [upleft    |-> [x |-> -Diag, y |-> One],
   up        |-> [x |-> 0,     y |-> One],
   upright   |-> [x |-> Diag,  y |-> One],
   left      |-> [x |-> -One,  y |-> 0],
   right     |-> [x |-> One,   y |-> 0],
   downleft  |-> [x |-> -Diag, y |-> -One],
   down      |-> [x |-> 0,     y |-> -One],
   downright |-> [x |-> Diag,  y |-> -One]]

-----------------------------------------------------------------------------
(* Pure helpers *)

Min(a, b) == IF a < b THEN a ELSE b
Max(a, b) == IF a > b THEN a ELSE b

\* clamp with Math.min and Math.max exchanged.
clampExchanged(v, min, max) == Max(max, Min(min, v))

\* Math.min(max, Math.max(min, v))
clamp(v, min, max) == Min(max, Max(min, v))

twistTemplate ==
  [linear  |-> [x |-> 0, y |-> 0, z |-> 0],
   angular |-> [x |-> 0, y |-> 0, z |-> 0]]

\* publishTwist without the early return for a missing topic.
publishTwistNoGuard(topic, linX, angZ) ==
  <<[topic |-> topic,
     msg |-> [twistTemplate EXCEPT !.linear = [x |-> linX, y |-> 0, z |-> 0],
                                   !.angular = [x |-> 0, y |-> 0, z |-> angZ]]]>>

\* publishTwist with the turn rate written to the wrong component of angular.
publishTwistWrongAxis(topic, linX, angZ) ==
  IF topic = NoTopic
    THEN <<>>
    ELSE <<[topic |-> topic,
            msg |-> [twistTemplate EXCEPT !.linear = [x |-> linX, y |-> 0, z |-> 0],
                                          !.angular = [x |-> 0, y |-> angZ, z |-> 0]]]>>

\* The messages publishTwist hands to topic.publish when the topic ref holds topic.
publishTwist(topic, linX, angZ) ==
  IF topic = NoTopic
    THEN <<>>
    ELSE <<[topic |-> topic,
            msg |-> [twistTemplate EXCEPT !.linear = [x |-> linX, y |-> 0, z |-> 0],
                                          !.angular = [x |-> 0, y |-> 0, z |-> angZ]]]>>

\* The interval callback without its E-stop branch.
tickMessagesNoEstop(c, axes, topic) ==
  IF ~c.isConnected THEN <<>>
  ELSE publishTwist(topic,
                    clamp(axes.y * c.linearMax, -(c.linearMax * One), c.linearMax * One),
                    clamp(axes.x * c.angularMax, -(c.angularMax * One), c.angularMax * One))

\* The interval callback with the two axes exchanged.
tickMessagesAxesExchanged(c, axes, topic) ==
  IF ~c.isConnected THEN <<>>
  ELSE IF c.estop THEN publishTwist(topic, 0, 0)
  ELSE publishTwist(topic,
                    clamp(axes.x * c.linearMax, -(c.linearMax * One), c.linearMax * One),
                    clamp(axes.y * c.angularMax, -(c.angularMax * One), c.angularMax * One))

\* The body of the interval callback, for the values c its closure captured.
tickMessages(c, axes, topic) ==
  IF ~c.isConnected THEN <<>>
  ELSE IF c.estop THEN publishTwist(topic, 0, 0)
  ELSE publishTwist(topic,
                    clamp(axes.y * c.linearMax, -(c.linearMax * One), c.linearMax * One),
                    clamp(axes.x * c.angularMax, -(c.angularMax * One), c.angularMax * One))

\* A session object: its connection state ("closed": no events are left, which
\* is also the state of a session object not created yet) and the topicName
\* its 'connection' handler captured (kept while that handler can still run).
Session(st, name) == [state |-> st, name |-> name]

\* close() that leaves the session as it is.
closeNoop(r) == r

\* ros.close() on session r: the socket starts closing; its events come later.
close(r) == IF r.state \in {"connecting", "open"} THEN Session("closing", "null") ELSE r

\* The handle setInterval returns: the first one no interval in live has.
setInterval(live) == CHOOSE n \in 1..(Cardinality(live) + 1) :
                       /\ \A i \in live : i.id # n
                       /\ \A m \in 1..(n - 1) : \E i \in live : i.id = m

-----------------------------------------------------------------------------
(* Effects *)

\* The dependency list without isConnected.
intervalDepsNoConnected == <<estop, linearMax, angularMax>>

\* The dependency list of the publish-interval effect.
intervalDeps == <<isConnected, estop, linearMax, angularMax>>

\* clearInterval that clears nothing.
clearIntervalNoop(live, id) == live

\* clearInterval(id) on the set live of live intervals; clearInterval(null) does nothing.
clearInterval(live, id) == {i \in live : i.id # id}

\* The publish-interval effect after a handler that left the timer ref at tr and
\* the live intervals at live: when a dependency changed, the cleanup of the
\* previous run and then the effect body, with the new values captured.
intervalEffect(tr, live) ==
  IF intervalDeps' = intervalDeps
    THEN /\ timerRef' = tr
         /\ intervals' = live
    ELSE LET cleaned == clearInterval(live, tr)
             id == setInterval(cleaned)
         IN  /\ timerRef' = id
             /\ intervals' = cleaned \cup
                  {[id |-> id, isConnected |-> isConnected', estop |-> estop',
                    linearMax |-> linearMax', angularMax |-> angularMax']}

-----------------------------------------------------------------------------
Init ==
  /\ topicName = "/cmd_vel"
  /\ isConnected = FALSE
  /\ linearMax = InitLinearMax
  /\ angularMax = InitAngularMax
  /\ estop = FALSE
  /\ controlMode = "joystick"
  /\ rosRef = 0
  /\ cmdVelTopicRef = NoTopic
  /\ axesRef = ZeroAxes
  /\ timerRef = 1
  /\ ros = [s \in Sessions |-> Session("closed", "null")]
  /\ intervals = {[id |-> 1, isConnected |-> FALSE, estop |-> FALSE,
                   linearMax |-> InitLinearMax, angularMax |-> InitAngularMax]}
  /\ stopTimers = <<>>
  /\ out = <<>>
  /\ lastOp = "init"

-----------------------------------------------------------------------------
(* Functions of the component *)

\* safeStop without the reset of the axes.
safeStopKeepAxes(topic) ==
  [axesRef    |-> axesRef,
   out        |-> publishTwist(topic, 0, 0),
   stopTimers |-> Append(stopTimers, 2)]

\* safeStop with the 80 ms repeat alone.
safeStopOneRepeat(topic) ==
  [axesRef    |-> ZeroAxes,
   out        |-> publishTwist(topic, 0, 0),
   stopTimers |-> Append(stopTimers, 1)]

\* safeStop() when the topic ref holds topic: the axes, the message of the
\* immediate publishTwist(0, 0), and the pending timers with the two delayed
\* repeats (80 ms and 160 ms) of this call added.
safeStop(topic) ==
  [axesRef    |-> ZeroAxes,
   out        |-> publishTwist(topic, 0, 0),
   stopTimers |-> Append(stopTimers, 2)]

\* disconnect(): the refs and the state it leaves.
disconnect ==
  [timerRef       |-> 0,
   intervals      |-> clearInterval(intervals, timerRef),
   cmdVelTopicRef |-> NoTopic,
   ros            |-> IF rosRef # 0 THEN [ros EXCEPT ![rosRef] = close(ros[rosRef])] ELSE ros,
   rosRef         |-> 0,
   isConnected    |-> FALSE]

\* Room for the two delayed repeats of one more safeStop call.
StopRoom == Len(stopTimers) < MaxSafeStops

-----------------------------------------------------------------------------
(* Connection *)

\* The Baglan button (rendered while not connected): connect().
Connect ==
  /\ ~isConnected
  /\ LET d == disconnect
         free == {s \in Sessions : d.ros[s].state = "closed"}
     IN  /\ free # {}
         /\ LET s == CHOOSE s \in free : \A t \in free : s <= t
            IN  /\ ros' = [d.ros EXCEPT ![s] = Session("connecting", topicName)]
                /\ rosRef' = s
         /\ cmdVelTopicRef' = d.cmdVelTopicRef
         /\ isConnected' = d.isConnected
         /\ UNCHANGED <<topicName, linearMax, angularMax, estop, controlMode,
                        axesRef, stopTimers>>
         /\ intervalEffect(d.timerRef, d.intervals)
  /\ out' = <<>>
  /\ lastOp' = "none"

\* The Kes button (rendered while connected): disconnect(); safeStop().
Kes ==
  /\ isConnected
  /\ StopRoom
  /\ LET d == disconnect
         st == safeStop(d.cmdVelTopicRef)
     IN  /\ ros' = d.ros
         /\ rosRef' = d.rosRef
         /\ cmdVelTopicRef' = d.cmdVelTopicRef
         /\ isConnected' = d.isConnected
         /\ axesRef' = st.axesRef
         /\ stopTimers' = st.stopTimers
         /\ out' = st.out
         /\ UNCHANGED <<topicName, linearMax, angularMax, estop, controlMode>>
         /\ intervalEffect(d.timerRef, d.intervals)
  /\ lastOp' = "kes"

\* A 'connection' handler that also releases E-stop.
OnConnectionClearsEstop(s) ==
  /\ ros[s].state = "connecting"
  /\ isConnected' = TRUE
  /\ estop' = FALSE
  /\ cmdVelTopicRef' = [ros |-> s, name |-> ros[s].name]
  /\ ros' = [ros EXCEPT ![s] = Session("open", "null")]
  /\ UNCHANGED <<topicName, linearMax, angularMax, controlMode,
                 rosRef, axesRef, stopTimers>>
  /\ intervalEffect(timerRef, intervals)
  /\ out' = <<>>
  /\ lastOp' = "none"

\* ros.on("connection") of session s.
OnConnection(s) ==
  /\ ros[s].state = "connecting"
  /\ isConnected' = TRUE
  /\ cmdVelTopicRef' = [ros |-> s, name |-> ros[s].name]
  /\ ros' = [ros EXCEPT ![s] = Session("open", "null")]
  /\ UNCHANGED <<topicName, linearMax, angularMax, estop, controlMode,
                 rosRef, axesRef, stopTimers>>
  /\ intervalEffect(timerRef, intervals)
  /\ out' = <<>>
  /\ lastOp' = "none"

\* ros.on("close") of session s.
OnClose(s) ==
  /\ ros[s].state \in {"open", "closing", "errored"}
  /\ StopRoom
  /\ LET st == safeStop(cmdVelTopicRef)
     IN  /\ isConnected' = FALSE
         /\ axesRef' = st.axesRef
         /\ stopTimers' = st.stopTimers
         /\ out' = st.out
  /\ ros' = [ros EXCEPT ![s] = Session("closed", "null")]
  /\ UNCHANGED <<topicName, linearMax, angularMax, estop, controlMode,
                 rosRef, cmdVelTopicRef>>
  /\ intervalEffect(timerRef, intervals)
  /\ lastOp' = "close"

\* ros.on("error") of session s; the socket's close event follows it.
OnError(s) ==
  /\ ros[s].state \in {"connecting", "open", "closing"}
  /\ StopRoom
  /\ LET st == safeStop(cmdVelTopicRef)
     IN  /\ isConnected' = FALSE
         /\ axesRef' = st.axesRef
         /\ stopTimers' = st.stopTimers
         /\ out' = st.out
  /\ ros' = [ros EXCEPT ![s] = Session("errored", "null")]
  /\ UNCHANGED <<topicName, linearMax, angularMax, estop, controlMode,
                 rosRef, cmdVelTopicRef>>
  /\ intervalEffect(timerRef, intervals)
  /\ lastOp' = "error"

-----------------------------------------------------------------------------
(* Input *)

\* The joystick's "move" handler, for the vector <<vx, vy>> of the widget.
JoystickMove(vx, vy) ==
  /\ controlMode = "joystick"
  /\ axesRef' = [x |-> clamp(vx, -One, One), y |-> -clamp(vy, -One, One)]
  /\ out' = <<>>
  /\ lastOp' = "none"
  /\ UNCHANGED <<topicName, isConnected, linearMax, angularMax, estop, controlMode,
                 rosRef, cmdVelTopicRef, timerRef, ros, intervals, stopTimers>>

\* A release handler that publishes the stop but leaves the axes as they are.
releaseKeepAxes(topic) == [axesRef |-> axesRef, out |-> publishTwist(topic, 0, 0)]

\* The axes and the message of every release handler:
\* axesRef.current = {x: 0, y: 0}; publishTwist(0, 0).
release(topic) == [axesRef |-> ZeroAxes, out |-> publishTwist(topic, 0, 0)]

\* The joystick's "end" handler.
JoystickEnd ==
  /\ controlMode = "joystick"
  /\ LET r == release(cmdVelTopicRef)
     IN  /\ axesRef' = r.axesRef
         /\ out' = r.out
  /\ lastOp' = "end"
  /\ UNCHANGED <<topicName, isConnected, linearMax, angularMax, estop, controlMode,
                 rosRef, cmdVelTopicRef, timerRef, ros, intervals, stopTimers>>

\* onPointerDown of direction button b (the buttons are disabled under E-stop).
PointerDown(b) ==
  /\ controlMode = "buttons"
  /\ ~estop
  /\ axesRef' = Buttons[b]
  /\ out' = <<>>
  /\ lastOp' = "none"
  /\ UNCHANGED <<topicName, isConnected, linearMax, angularMax, estop, controlMode,
                 rosRef, cmdVelTopicRef, timerRef, ros, intervals, stopTimers>>

\* onPointerUp and onPointerLeave of a direction button: the same handler body.
PointerRelease(ev) ==
  /\ controlMode = "buttons"
  /\ ~estop
  /\ LET r == release(cmdVelTopicRef)
     IN  /\ axesRef' = r.axesRef
         /\ out' = r.out
  /\ lastOp' = ev
  /\ UNCHANGED <<topicName, isConnected, linearMax, angularMax, estop, controlMode,
                 rosRef, cmdVelTopicRef, timerRef, ros, intervals, stopTimers>>

\* onClick of the centre button, DUR.
Dur ==
  /\ controlMode = "buttons"
  /\ ~estop
  /\ LET r == release(cmdVelTopicRef)
     IN  /\ axesRef' = r.axesRef
         /\ out' = r.out
  /\ lastOp' = "dur"
  /\ UNCHANGED <<topicName, isConnected, linearMax, angularMax, estop, controlMode,
                 rosRef, cmdVelTopicRef, timerRef, ros, intervals, stopTimers>>

-----------------------------------------------------------------------------
(* E-stop and settings *)

\* onClick of ACIL DURDUR (v = TRUE) and of E-STOP COZ (v = FALSE):
\* setEstop(v); safeStop().
SetEstop(v) ==
  /\ StopRoom
  /\ estop' = v
  /\ LET st == safeStop(cmdVelTopicRef)
     IN  /\ axesRef' = st.axesRef
         /\ stopTimers' = st.stopTimers
         /\ out' = st.out
  /\ UNCHANGED <<topicName, isConnected, linearMax, angularMax, controlMode,
                 rosRef, cmdVelTopicRef, ros>>
  /\ intervalEffect(timerRef, intervals)
  /\ lastOp' = IF v THEN "estop" ELSE "estopRelease"

\* onChange of the topic input, then the topicName effect when the name changed.
SetTopicName(v) ==
  /\ topicName' = v
  /\ IF v # topicName /\ isConnected /\ rosRef # 0
       THEN /\ StopRoom
            /\ cmdVelTopicRef' = [ros |-> rosRef, name |-> v]
            /\ LET st == safeStop(cmdVelTopicRef')
               IN  /\ axesRef' = st.axesRef
                   /\ stopTimers' = st.stopTimers
                   /\ out' = st.out
       ELSE /\ out' = <<>>
            /\ UNCHANGED <<cmdVelTopicRef, axesRef, stopTimers>>
  /\ lastOp' = IF v # topicName /\ isConnected /\ rosRef # 0 THEN "topic" ELSE "none"
  /\ UNCHANGED <<isConnected, linearMax, angularMax, estop, controlMode,
                 rosRef, timerRef, ros, intervals>>

\* onChange of the Linear Max input.
SetLinearMax(v) ==
  /\ linearMax' = v
  /\ UNCHANGED <<topicName, isConnected, angularMax, estop, controlMode,
                 rosRef, cmdVelTopicRef, axesRef, ros, stopTimers>>
  /\ intervalEffect(timerRef, intervals)
  /\ out' = <<>>
  /\ lastOp' = "none"

\* onChange of the Angular Max input.
SetAngularMax(v) ==
  /\ angularMax' = v
  /\ UNCHANGED <<topicName, isConnected, linearMax, estop, controlMode,
                 rosRef, cmdVelTopicRef, axesRef, ros, stopTimers>>
  /\ intervalEffect(timerRef, intervals)
  /\ out' = <<>>
  /\ lastOp' = "none"

\* onClick of the Joystick mode button.
ModeJoystick ==
  /\ controlMode' = "joystick"
  /\ out' = <<>>
  /\ lastOp' = "none"
  /\ UNCHANGED <<topicName, isConnected, linearMax, angularMax, estop,
                 rosRef, cmdVelTopicRef, axesRef, timerRef, ros, intervals, stopTimers>>

\* onClick of the Butonlar mode button: setControlMode("buttons"); safeStop().
ModeButtons ==
  /\ StopRoom
  /\ controlMode' = "buttons"
  /\ LET st == safeStop(cmdVelTopicRef)
     IN  /\ axesRef' = st.axesRef
         /\ stopTimers' = st.stopTimers
         /\ out' = st.out
  /\ lastOp' = "modeButtons"
  /\ UNCHANGED <<topicName, isConnected, linearMax, angularMax, estop,
                 rosRef, cmdVelTopicRef, timerRef, ros, intervals>>

-----------------------------------------------------------------------------
(* Timers *)

\* One run of the callback of live interval i.
Tick(i) ==
  /\ i \in intervals
  /\ out' = tickMessages(i, axesRef, cmdVelTopicRef)
  /\ lastOp' = "tick"
  /\ UNCHANGED <<topicName, isConnected, linearMax, angularMax, estop, controlMode,
                 rosRef, cmdVelTopicRef, axesRef, timerRef, ros, intervals, stopTimers>>

\* Whether the next delayed repeat of the k-th pending safeStop call can be the
\* next timeout to fire: its 80 ms repeat (2 left) after the 80 ms repeats of
\* the earlier calls, its 160 ms repeat (1 left) after all of theirs.
due(k) ==
  IF stopTimers[k] = 2
    THEN \A j \in 1..(k - 1) : stopTimers[j] = 1
    ELSE k = 1

\* A delayed repeat of safeStop fires: publishTwist(0, 0).
StopTimeout(k) ==
  /\ k \in 1..Len(stopTimers)
  /\ due(k)
  /\ stopTimers' = IF stopTimers[k] = 2
                     THEN [stopTimers EXCEPT ![k] = 1]
                     ELSE Tail(stopTimers)
  /\ out' = publishTwist(cmdVelTopicRef, 0, 0)
  /\ lastOp' = "timeout"
  /\ UNCHANGED <<topicName, isConnected, linearMax, angularMax, estop, controlMode,
                 rosRef, cmdVelTopicRef, axesRef, timerRef, ros, intervals>>

-----------------------------------------------------------------------------
\* The steps of the component, for the inputs the user and the widget give:
\* topic names, limits, joystick vector components and direction buttons.
Step(topics, linearVals, angularVals, joyVals, buttons) ==
  \/ Connect
  \/ Kes
  \/ \E s \in Sessions : OnConnection(s)
  \/ \E s \in Sessions : OnClose(s)
  \/ \E s \in Sessions : OnError(s)
  \/ \E vx \in joyVals, vy \in joyVals : JoystickMove(vx, vy)
  \/ JoystickEnd
  \/ \E b \in buttons : PointerDown(b)
  \/ \E ev \in {"pointerup", "pointerleave"} : PointerRelease(ev)
  \/ Dur
  \/ \E v \in BOOLEAN : SetEstop(v)
  \/ \E v \in topics : SetTopicName(v)
  \/ \E v \in linearVals : SetLinearMax(v)
  \/ \E v \in angularVals : SetAngularMax(v)
  \/ ModeJoystick
  \/ ModeButtons
  \/ \E i \in intervals : Tick(i)
  \/ \E k \in 1..MaxSafeStops : StopTimeout(k)

\* Driving: every limit, joystick position and button, on the initial topic.
Next == Step({"/cmd_vel"}, LinearVals, AngularVals, JoyVals, DOMAIN Buttons)

Spec == Init /\ [][Next]_vars

\* Sessions and topics: every topic name, with the initial limits, one joystick
\* position and one button.
NextTopic == Step(Topics, {InitLinearMax}, {InitAngularMax}, {JoyOver}, {"up"})

SpecTopic == Init /\ [][NextTopic]_vars

\* setInterval runs the callback of a live interval again and again.
TickStep == \E i \in intervals : Tick(i)

SpecFair == Init /\ [][Next]_vars /\ WF_vars(TickStep)

-----------------------------------------------------------------------------
(* Properties *)

Messages(o) == {o[i] : i \in 1..Len(o)}
ZeroVelocity(m) == m.msg.linear.x = 0 /\ m.msg.angular.z = 0
HasTopic == cmdVelTopicRef # NoTopic
ReleaseOps == {"end", "pointerup", "pointerleave", "dur"}
Driving == lastOp = "tick" /\ isConnected /\ ~estop /\ HasTopic

\* C1: a step taken while E-stop is on, or that turns it on, publishes only
\* messages with linear.x = 0 and angular.z = 0, whatever axesRef holds.
EstopForcesZero ==
  [][(estop \/ estop') => \A m \in Messages(out') : ZeroVelocity(m)]_vars

EstopForcesZeroWitness ==
  /\ estop
  /\ lastOp = "tick"
  /\ axesRef # ZeroAxes
  /\ Len(out) = 1

\* C2: a tick while connected, not under E-stop and with a topic publishes
\* exactly one message, with linear.x = clamp(axes.y * linearMax) and
\* angular.z = clamp(axes.x * angularMax); with both limits >= 0 and the axes
\* in [-1, 1] these are the products themselves.
TickPublishesScaledAxes ==
  Driving =>
    /\ Len(out) = 1
    /\ out[1].msg.linear.x =
         Min(linearMax * One, Max(-(linearMax * One), axesRef.y * linearMax))
    /\ out[1].msg.angular.z =
         Min(angularMax * One, Max(-(angularMax * One), axesRef.x * angularMax))
    /\ (/\ linearMax >= 0
        /\ angularMax >= 0
        /\ axesRef.x \in (-One)..One
        /\ axesRef.y \in (-One)..One)
       => /\ out[1].msg.linear.x = axesRef.y * linearMax
          /\ out[1].msg.angular.z = axesRef.x * angularMax

TickPublishesScaledAxesWitness ==
  /\ Driving
  /\ linearMax > 0
  /\ angularMax > 0
  /\ axesRef.x = Diag
  /\ axesRef.y = -One
  /\ Len(out) = 1
  /\ out[1].msg.linear.x = -(One * linearMax)
  /\ out[1].msg.angular.z = Diag * angularMax

\* C3: a joystick end, a button's pointer-up or pointer-leave and DUR set the
\* axes to (0, 0) and publish one zero-velocity message on the topic, when there
\* is one; only a joystick move or a button's pointer-down takes the axes away
\* from (0, 0).
ReleaseMeansStop ==
  [][/\ lastOp' \in ReleaseOps =>
          /\ axesRef' = ZeroAxes
          /\ HasTopic => /\ Len(out') = 1
                         /\ ZeroVelocity(out'[1])
                         /\ out'[1].topic = cmdVelTopicRef
     /\ (axesRef = ZeroAxes /\ axesRef' # ZeroAxes) =>
          \/ \E vx \in JoyVals, vy \in JoyVals : JoystickMove(vx, vy)
          \/ \E b \in DOMAIN Buttons : PointerDown(b)]_vars

ReleaseMeansStopWitness ==
  /\ lastOp = "pointerleave"
  /\ axesRef = ZeroAxes
  /\ Len(out) = 1
  /\ ZeroVelocity(out[1])

\* The message of a tick that carries the velocity of deflection a under the
\* limits l and g: (a.y * l, a.x * g).
Velocity(a, l, g) ==
  [topic |-> cmdVelTopicRef,
   msg |-> [linear  |-> [x |-> a.y * l, y |-> 0, z |-> 0],
            angular |-> [x |-> 0, y |-> 0, z |-> a.x * g]]]

\* C4: if from some point on the session stays connected, E-stop stays off, the
\* limits stay as they are and a direction button stays held, then ticks that
\* publish that button's velocity keep happening.
HoldMeansMove ==
  \A b \in DOMAIN Buttons, l \in LinearVals, g \in AngularVals :
    <>[](/\ isConnected
         /\ ~estop
         /\ linearMax = l
         /\ angularMax = g
         /\ axesRef = Buttons[b])
    => []<>(lastOp = "tick" /\ out = <<Velocity(Buttons[b], l, g)>>)

\* C5: while driving with angularMax > 0, the left button is published as
\* angular.z = +angularMax and the right button as angular.z = -angularMax.
TurnDirectionAsDocumented ==
  (Driving /\ angularMax > 0) =>
    /\ axesRef = Buttons.left => out[1].msg.angular.z = angularMax * One
    /\ axesRef = Buttons.right => out[1].msg.angular.z = -(angularMax * One)

\* C6: while driving with linearMax > 0, the up button is published as
\* linear.x = +linearMax and the down button as linear.x = -linearMax.
DriveDirectionAsDocumented ==
  (Driving /\ linearMax > 0) =>
    /\ axesRef = Buttons.up => out[1].msg.linear.x = linearMax * One
    /\ axesRef = Buttons.down => out[1].msg.linear.x = -(linearMax * One)

DriveDirectionWitness ==
  /\ Driving
  /\ linearMax > 0
  /\ controlMode = "buttons"
  /\ axesRef = Buttons.down
  /\ out[1].msg.linear.x = -(linearMax * One)

\* C7: a tick while isConnected is false publishes nothing and changes no
\* state, whatever the axes and E-stop are.
TimerSilentWhileDisconnected ==
  [][(lastOp' = "tick" /\ ~isConnected) =>
       /\ out' = <<>>
       /\ UNCHANGED <<topicName, isConnected, linearMax, angularMax, estop,
                      controlMode, rosRef, cmdVelTopicRef, axesRef, timerRef,
                      ros, intervals, stopTimers>>]_vars

TimerSilentWitness ==
  /\ lastOp = "tick"
  /\ ~isConnected
  /\ HasTopic
  /\ axesRef # ZeroAxes
  /\ out = <<>>

\* C8: every published message is a Twist whose linear.y, linear.z, angular.x
\* and angular.y are 0.
OnlyLinearXAngularZ ==
  \A m \in Messages(out) :
    /\ DOMAIN m.msg = {"linear", "angular"}
    /\ DOMAIN m.msg.linear = {"x", "y", "z"}
    /\ DOMAIN m.msg.angular = {"x", "y", "z"}
    /\ m.msg.linear.y = 0
    /\ m.msg.linear.z = 0
    /\ m.msg.angular.x = 0
    /\ m.msg.angular.y = 0

OnlyLinearXAngularZWitness ==
  /\ Len(out) = 1
  /\ out[1].msg.linear.x # 0
  /\ out[1].msg.angular.z # 0

\* C9: pressing Kes while connected with a topic publishes at least one
\* zero-velocity message as part of that step.
KesPublishesStop ==
  [][(lastOp' = "kes" /\ isConnected /\ HasTopic) =>
       \E m \in Messages(out') : ZeroVelocity(m)]_vars

\* C10: whenever the session held in rosRef has emitted 'connection' and no
\* 'close' or 'error' since, isConnected is true.
OpenSessionIsConnected ==
  (rosRef # 0 /\ ros[rosRef].state = "open") => isConnected

\* C11: whenever a publishing topic exists, its name is the configured
\* topicName.
TopicNameIsCurrent == HasTopic => cmdVelTopicRef.name = topicName

\* C12: E-STOP COZ leaves the axes at (0, 0); a step that ends with the axes at
\* (0, 0) and non-negative limits publishes only zero velocities; and only a
\* joystick move or a button's pointer-down takes the axes away from (0, 0).
EstopReleaseStaysStopped ==
  [][/\ (estop /\ ~estop') => axesRef' = ZeroAxes
     /\ lastOp' = "estopRelease" => axesRef' = ZeroAxes
     /\ (axesRef' = ZeroAxes /\ linearMax' >= 0 /\ angularMax' >= 0) =>
          \A m \in Messages(out') : ZeroVelocity(m)
     /\ (axesRef = ZeroAxes /\ axesRef' # ZeroAxes) =>
          \/ \E vx \in JoyVals, vy \in JoyVals : JoystickMove(vx, vy)
          \/ \E b \in DOMAIN Buttons : PointerDown(b)]_vars

\* E-STOP COZ has just been pressed while connected: the axes are (0, 0) and
\* its stop message went out.
EstopReleaseWitness ==
  /\ lastOp = "estopRelease"
  /\ ~estop
  /\ isConnected
  /\ controlMode = "joystick"
  /\ axesRef = ZeroAxes
  /\ Len(out) = 1
  /\ ZeroVelocity(out[1])

\* C13: a tick with axes (0, 0) while connected and not under E-stop publishes
\* linear.x = 0 and angular.z = 0, for every limit, negative ones included.
ZeroInputZeroOutput ==
  (Driving /\ axesRef = ZeroAxes) => \A m \in Messages(out) : ZeroVelocity(m)

SafeStopOps == {"kes", "close", "error", "estop", "estopRelease", "topic", "modeButtons"}

\* What one publishTwist(0, 0) hands to topic.publish when the topic ref holds topic.
StopOn(topic) ==
  IF topic = NoTopic
    THEN <<>>
    ELSE <<[topic |-> topic,
            msg |-> [linear  |-> [x |-> 0, y |-> 0, z |-> 0],
                     angular |-> [x |-> 0, y |-> 0, z |-> 0]]]>>

\* C14: a handler that calls safeStop sets the axes to (0, 0), publishes one
\* zero-velocity message at once and leaves two delayed repeats pending; the
\* repeats of a call fire one at a time, the 80 ms one before the 160 ms one;
\* each publishes on the topic that is current when it fires and nothing when
\* there is none; nothing else adds or removes a repeat.
SafeStopPublishesThrice ==
  [][/\ lastOp' \in SafeStopOps =>
          /\ axesRef' = ZeroAxes
          /\ out' = StopOn(cmdVelTopicRef')
          /\ stopTimers' = Append(stopTimers, 2)
     /\ lastOp' = "timeout" =>
          /\ out' = StopOn(cmdVelTopicRef)
          /\ cmdVelTopicRef' = cmdVelTopicRef
          /\ \/ \E k \in 1..Len(stopTimers) :
                  /\ stopTimers[k] = 2
                  /\ stopTimers' = [stopTimers EXCEPT ![k] = 1]
             \/ /\ stopTimers # <<>>
                /\ stopTimers[1] = 1
                /\ stopTimers' = Tail(stopTimers)
     /\ stopTimers' # stopTimers => lastOp' \in SafeStopOps \cup {"timeout"}]_vars

\* The 160 ms repeat, the last of the three, has just published.
SafeStopThirdWitness ==
  /\ lastOp = "timeout"
  /\ stopTimers = <<>>
  /\ HasTopic
  /\ out = StopOn(cmdVelTopicRef)

\* C15: a step taken while no topic exists publishes nothing; every message
\* goes to an existing topic; connect() and Kes leave no topic; and a topic
\* comes to exist only by a 'connection' event.
NoTopicNoMessage ==
  [][/\ ~HasTopic => out' = <<>>
     /\ \A m \in Messages(out') : m.topic # NoTopic
     /\ (Connect \/ Kes) => cmdVelTopicRef' = NoTopic
     /\ (~HasTopic /\ cmdVelTopicRef' # NoTopic) => \E s \in Sessions : OnConnection(s)]_vars

\* After Kes, a delayed repeat of safeStop fired and found no topic.
NoTopicNoMessageWitness ==
  /\ lastOp = "timeout"
  /\ rosRef = 0
  /\ ~HasTopic
  /\ out = <<>>

\* C16: only the two E-stop buttons change estop, and a step that ends with
\* estop true publishes only zero velocities.
EstopOnlyByItsButtons ==
  [][/\ estop' # estop => \E v \in BOOLEAN : SetEstop(v)
     /\ estop' => \A m \in Messages(out') : ZeroVelocity(m)]_vars

\* A second session is open while E-stop is on, and a tick published a stop.
EstopAcrossReconnectWitness ==
  /\ estop
  /\ isConnected
  /\ ros[1].state = "closing"
  /\ ros[2].state = "open"
  /\ lastOp = "tick"
  /\ out = StopOn(cmdVelTopicRef)
  /\ HasTopic

\* C17: at most one interval is live, and it is the one timerRef holds.
OneLiveInterval ==
  /\ Cardinality(intervals) <= 1
  /\ \A i \in intervals : i.id = timerRef

\* After a connection, an E-stop press and a limit edit one interval is live.
OneLiveIntervalWitness ==
  /\ Cardinality(intervals) = 1
  /\ isConnected
  /\ estop
  /\ linearMax # InitLinearMax
  /\ lastOp = "tick"

\* C18: a session that is connecting or open is the one rosRef holds, so there
\* is at most one; after Kes rosRef and cmdVelTopicRef are null.
OneOpenSession ==
  /\ \A s \in Sessions : ros[s].state \in {"connecting", "open"} => s = rosRef
  /\ Cardinality({s \in Sessions : ros[s].state \in {"connecting", "open"}}) <= 1
  /\ lastOp = "kes" => (rosRef = 0 /\ cmdVelTopicRef = NoTopic)

\* connect() replaced a session that is still closing.
OneOpenSessionWitness ==
  /\ ros[1].state = "closing"
  /\ ros[2].state = "connecting"
  /\ rosRef = 2

====
